---- MODULE Spec2Model ----
(***************************************************************************)
(* Bulk creation in the Bloomy SDK: the item validator, the sequential     *)
(* executor (AbstractOperations._process_bulk_sync), the concurrent        *)
(* executor (AsyncBaseOperations._process_bulk_async) with its             *)
(* asyncio.Semaphore, and the goal/issue adapters' create with its lazy    *)
(* identity lookup (GET users/mine).                                       *)
(*                                                                         *)
(* Python values are modelled as strings: None is "None", the empty string *)
(* is "", integers are written "int:<n>".  A dict is a function whose      *)
(* DOMAIN is its key set.  Indices are Python's, 0..n-1.                   *)
(***************************************************************************)
EXTENDS Integers, Sequences, FiniteSets, TLC

\* ---------------------------------------------------------------- bounds
MaxItems == 3
MaxConcurrent == 2

\* ---------------------------------------------------------- Python values
None == "None"
EmptyStr == ""
Zero == "int:0"
NoException == "<no exception>"

\* GET users/mine answers with the authenticated user's id.
ServerUserId == "int:9"

\* dict.get(field)
Get(d, f) == IF f \in DOMAIN d THEN d[f] ELSE None

\* ------------------------------------------------------------- exceptions
\* Classes derived from Exception, and the BaseException-only classes.
ExceptionClasses == {"ValueError", "HTTPStatusError", "KeyError"}
BaseOnlyClasses == {"CancelledError", "KeyboardInterrupt", "SystemExit"}

\* mutant: the handler catches ValueError only
CaughtOnlyValueError(cls) == cls = "ValueError"

\* `except Exception as e`
CaughtByExceptException(cls) == cls \in ExceptionClasses

\* what a remote request (POST create, GET users/mine) can do: answer, raise
\* an httpx error, or be cut short by an exception outside the Exception
\* hierarchy (a cancelled await; Ctrl-C in a blocking call)
PostOutcomes == {"ok", "HTTPStatusError", "CancelledError"}
SyncPostOutcomes == {"ok", "HTTPStatusError", "KeyboardInterrupt"}
LookupOutcomes == {"ok", "HTTPStatusError"}

\* str(e) of the exception a failed request raises
StrOfRemote(cls) == IF cls = "HTTPStatusError" THEN "Server error" ELSE ""

\* ------------------------------------------------------------- validator
RECURSIVE ValidateFalsyFrom(_, _, _)
ValidateFalsyFrom(item_data, required_fields, k) ==
    IF k > Len(required_fields) THEN NoException
    ELSE IF Get(item_data, required_fields[k]) \in {None, EmptyStr, Zero}
         THEN required_fields[k] \o " is required"
         ELSE ValidateFalsyFrom(item_data, required_fields, k + 1)

\* mutant: `if not item_data.get(field)` (truthiness instead of `is None`)
ValidateFalsy(item_data, required_fields) ==
    ValidateFalsyFrom(item_data, required_fields, 1)

\* mutant: no validation at all
ValidateNothing(item_data, required_fields) == NoException

RECURSIVE ValidateFrom(_, _, _)
ValidateFrom(item_data, required_fields, k) ==
    IF k > Len(required_fields) THEN NoException
    ELSE IF Get(item_data, required_fields[k]) = None
         THEN required_fields[k] \o " is required"
         ELSE ValidateFrom(item_data, required_fields, k + 1)

\* _validate_bulk_item: the message of the ValueError it raises, or
\* NoException when it returns.
ValidateBulkItem(item_data, required_fields) ==
    ValidateFrom(item_data, required_fields, 1)

\* ------------------------------------------------------ adapters' constants
\* mutant: the goal adapter lists its fields in the issue adapter's order
GoalRequiredSwapped == <<"meeting_id", "title">>

GoalRequired == <<"title", "meeting_id">>
IssueRequired == <<"meeting_id", "title">>

\* --------------------------------------------------------------- records
\* mutant: enumerate(items, 1)
BulkCreateErrorOffByOne(index, item_data, msg) ==
    [cls |-> "BulkCreateError", index |-> index + 1, input_data |-> item_data,
     error |-> msg]

\* mutant: the error keeps a cleaned copy of the item, its None values dropped
BulkCreateErrorCleaned(index, item_data, msg) ==
    [cls |-> "BulkCreateError", index |-> index,
     input_data |-> [f \in {g \in DOMAIN item_data : item_data[g] # None}
                        |-> item_data[f]],
     error |-> msg]

\* BulkCreateError(index=index, input_data=item_data, error=str(e))
BulkCreateErrorRec(index, item_data, msg) ==
    [cls |-> "BulkCreateError", index |-> index, input_data |-> item_data,
     error |-> msg]

\* what create returns: the server's id with the title, meeting and the
\* user id the request was made for
CreatedRec(id, item_data, uid) ==
    [cls |-> "Created", id |-> id, title |-> item_data["title"],
     meeting_id |-> item_data["meeting_id"], user_id |-> uid]

Pending == [cls |-> "pending"]

IsBulkCreateError(r) == r.cls = "BulkCreateError"

\* ------------------------------------------------------------ input space
ItemValidUser == [title |-> "A", meeting_id |-> "int:1", user_id |-> "int:7"]
ItemValidNoUser == [title |-> EmptyStr, meeting_id |-> Zero]
ItemNothing == [title |-> None]
ItemPool == {ItemValidUser, ItemValidNoUser, ItemNothing}

RECURSIVE SeqsUpTo(_, _)
SeqsUpTo(S, n) ==
    IF n = 0 THEN {<<>>}
    ELSE LET shorter == SeqsUpTo(S, n - 1)
         IN shorter \cup {Append(s, x) : s \in {t \in shorter : Len(t) = n - 1}, x \in S}

\* the validator's own input space
TitleValues == {None, EmptyStr, "A"}
MeetingValues == {None, Zero, "int:1"}
ValidatorItems ==
    {[title |-> t, meeting_id |-> m] : t \in TitleValues, m \in MeetingValues}
    \cup {[title |-> t] : t \in TitleValues}
    \cup {[meeting_id |-> m] : m \in MeetingValues}
    \cup {[user_id |-> "int:7"]}
ValidatorFieldLists ==
    {<<>>, <<"title">>, <<"meeting_id">>, GoalRequired, IssueRequired}

VARIABLES
    mode,            \* "sync", "async": which executor; "validate": the validator alone
    items,           \* the input list
    required_fields, \* the adapter's required fields
    max_concurrent,  \* the async executor's argument
    self_user_id,    \* the adapter's _user_id
    main,            \* the caller: "init", "loop", "gather", "returned", "raised"
    pc,              \* per item: "new", "waiting", "granted", "lookup", "post", "done", "crashed"
    sem_value,       \* asyncio.Semaphore._value
    waiters,         \* asyncio.Semaphore._waiters, indices in FIFO order
    ret,             \* per item: what its task returned / what create_one did
    successful,      \* the result's successful list
    failed,          \* the result's failed list
    completed,       \* the indices in the order their items settled
    calls,           \* per item: how often create_func was invoked
    lookups,         \* GET users/mine requests issued
    nextId           \* the id the server gives the next created object

vars == <<mode, items, required_fields, max_concurrent, self_user_id, main, pc,
          sem_value, waiters, ret, successful, failed, completed, calls,
          lookups, nextId>>

N == Len(items)
Indices == 0 .. (N - 1)
Item(i) == items[i + 1]

inputs == <<mode, items, required_fields, max_concurrent>>

InitCommon ==
    /\ main = "init"
    /\ pc = [i \in Indices |-> "new"]
    /\ sem_value = 0
    /\ waiters = <<>>
    /\ ret = [i \in Indices |-> Pending]
    /\ successful = <<>>
    /\ failed = <<>>
    /\ completed = <<>>
    /\ calls = [i \in Indices |-> 0]
    /\ lookups = 0
    /\ nextId = 1

\* A freshly constructed adapter has _user_id = None; the setter may have
\* assigned one before the batch.
Init ==
    /\ mode \in {"sync", "async"}
    /\ items \in SeqsUpTo(ItemPool, MaxItems)
    /\ required_fields \in {GoalRequired, IssueRequired}
    /\ max_concurrent \in IF mode = "async" THEN (-1) .. MaxConcurrent ELSE {1}
    /\ self_user_id \in {None, "int:5"}
    /\ InitCommon

\* ------------------------------------------------------ asyncio.Semaphore
RECURSIVE FirstWaitingFrom(_, _, _)
FirstWaitingFrom(ws, p, k) ==
    IF k > Len(ws) THEN {}
    ELSE IF p[ws[k]] = "waiting" THEN {ws[k]}
         ELSE FirstWaitingFrom(ws, p, k + 1)

\* the first waiter whose future is not done yet (as a set of at most one)
FirstWaiting(ws, p) == FirstWaitingFrom(ws, p, 1)

\* mutant: a semaphore that never locks
LockedNever(v, ws) == FALSE

\* Semaphore.locked(): no waiter is ever cancelled here, so any waiter counts
Locked(v, ws) == v = 0 \/ Len(ws) > 0

\* mutant: release() forgets to wake a waiter
WakeUpNextNobody(v, ws, p) == [value |-> v, pc |-> p]

\* Semaphore._wake_up_next(): hand the permit to the first waiter not done
WakeUpNext(v, ws, p) ==
    LET w == FirstWaiting(ws, p)
    IN IF w = {} THEN [value |-> v, pc |-> p]
       ELSE [value |-> v - 1,
             pc |-> [j \in DOMAIN p |-> IF j \in w THEN "granted" ELSE p[j]]]

\* mutant: release() gives back two permits
ReleaseSemTwice(v, ws, p) == WakeUpNext(v + 2, ws, p)

\* Semaphore.release(), run by `async with` on every exit of the block
ReleaseSem(v, ws, p) == WakeUpNext(v + 1, ws, p)

RemoveWaiter(ws, i) == SelectSeq(ws, LAMBDA j : j # i)

\* gather schedules the tasks' first steps back to back, in index order, in
\* the event loop's ready queue: every task has run up to its first
\* suspension before the loop polls for any request's completion.
AllStarted == \A j \in Indices : pc[j] # "new"

\* mutant: create resolves the identity whether or not the item names a user
NeedsLookupAlways(item_data, uid) == uid = None

\* ------------------------------------------------------- adapter's create
\* create(): `if user_id is None: user_id = await self.get_user_id()` and
\* get_user_id(): `if self._user_id is None: ... await _get_default_user_id()`
NeedsLookup(item_data, uid) == Get(item_data, "user_id") = None /\ uid = None

RECURSIVE FirstAbsentFrom(_, _, _)
FirstAbsentFrom(item_data, fields, k) ==
    IF k > Len(fields) THEN NoException
    ELSE IF fields[k] \notin DOMAIN item_data THEN "'" \o fields[k] \o "'"
         ELSE FirstAbsentFrom(item_data, fields, k + 1)

\* _create_single reads data["title"] and data["meeting_id"] (in the order of
\* the adapter's required fields): str() of the KeyError, or NoException
CreateFuncKeyError(item_data, fields) == FirstAbsentFrom(item_data, fields, 1)

\* the user id create puts in the payload once no lookup is pending
PayloadUserId(item_data, uid) ==
    IF Get(item_data, "user_id") = None THEN uid ELSE Get(item_data, "user_id")

\* ------------------------------------------------------ exception handling
\* What the try/except of an executor makes of an exception of class cls
\* raised for item i: the BulkCreateError of the handler, or the exception
\* itself when the handler does not catch it.
Uncaught(cls) == [cls |-> "raised", exc |-> cls]
Handled(i, cls, msg) ==
    IF CaughtByExceptException(cls) THEN BulkCreateErrorRec(i, Item(i), msg)
    ELSE Uncaught(cls)
ExitState(r) == IF r.cls = "raised" THEN "crashed" ELSE "done"

\* ---------------------------------------------------- concurrent executor
\* mutant: the permit is released on the success path only (acquire/release
\* without try/finally)
TaskExitKeepsPermitOnError(i, r, newpc, v, ws, p) ==
    LET s == IF IsBulkCreateError(r) THEN [value |-> v, pc |-> p]
             ELSE ReleaseSem(v, ws, p)
    IN /\ sem_value' = s.value
       /\ waiters' = ws
       /\ pc' = [s.pc EXCEPT ![i] = newpc]
       /\ ret' = [ret EXCEPT ![i] = r]
       /\ completed' = Append(completed, i)

\* Task i leaves the `async with` block holding semaphore state (v, ws, p):
\* it returns (index, r), or raises when newpc = "crashed".
TaskExit(i, r, newpc, v, ws, p) ==
    LET s == ReleaseSem(v, ws, p)
    IN /\ sem_value' = s.value
       /\ waiters' = ws
       /\ pc' = [s.pc EXCEPT ![i] = newpc]
       /\ ret' = [ret EXCEPT ![i] = r]
       /\ completed' = Append(completed, i)

\* mutant: the item is sent first and validated by the server's answer
RunBodySendFirst(i, v, ws, p) ==
    /\ calls' = [calls EXCEPT ![i] = @ + 1]
    /\ sem_value' = v
    /\ waiters' = ws
    /\ pc' = [p EXCEPT ![i] = "post"]
    /\ UNCHANGED <<lookups, ret, completed>>

\* create_single's body once the permit is held, up to its first suspension:
\* validate, then create_func -> create -> first request.
RunBody(i, v, ws, p) ==
    LET e == ValidateBulkItem(Item(i), required_fields)
        ke == CreateFuncKeyError(Item(i), required_fields)
    IN IF e # NoException
       THEN /\ LET r == Handled(i, "ValueError", e)
               IN TaskExit(i, r, ExitState(r), v, ws, p)
            /\ UNCHANGED <<calls, lookups>>
       ELSE /\ calls' = [calls EXCEPT ![i] = @ + 1]
            /\ IF ke # NoException
               THEN /\ LET r == Handled(i, "KeyError", ke)
                       IN TaskExit(i, r, ExitState(r), v, ws, p)
                    /\ UNCHANGED lookups
               ELSE /\ sem_value' = v
                    /\ waiters' = ws
                    /\ IF NeedsLookup(Item(i), self_user_id)
                       THEN /\ pc' = [p EXCEPT ![i] = "lookup"]
                            /\ lookups' = lookups + 1
                       ELSE /\ pc' = [p EXCEPT ![i] = "post"]
                            /\ UNCHANGED lookups
                    /\ UNCHANGED <<ret, completed>>

\* mutant: the identity is resolved eagerly when the batch starts
AsyncCallEagerLookup ==
    /\ mode = "async"
    /\ main = "init"
    /\ IF max_concurrent < 0
       THEN main' = "raised" /\ UNCHANGED sem_value
       ELSE main' = "gather" /\ sem_value' = max_concurrent
    /\ IF self_user_id = None
       THEN lookups' = lookups + 1 /\ self_user_id' = ServerUserId
       ELSE UNCHANGED <<lookups, self_user_id>>
    /\ UNCHANGED <<inputs, pc, waiters, ret, successful, failed, completed,
                   calls, nextId>>

\* mutant: a limit of zero is taken for one
AsyncCallAtLeastOne ==
    /\ mode = "async"
    /\ main = "init"
    /\ IF max_concurrent < 0
       THEN main' = "raised" /\ UNCHANGED sem_value
       ELSE /\ main' = "gather"
            /\ sem_value' = IF max_concurrent = 0 THEN 1 ELSE max_concurrent
    /\ UNCHANGED <<inputs, self_user_id, pc, waiters, ret, successful, failed,
                   completed, calls, lookups, nextId>>

\* mutant: a negative limit makes a semaphore without permits
AsyncCallNegativeAsZero ==
    /\ mode = "async"
    /\ main = "init"
    /\ main' = "gather"
    /\ sem_value' = IF max_concurrent < 0 THEN 0 ELSE max_concurrent
    /\ UNCHANGED <<inputs, self_user_id, pc, waiters, ret, successful, failed,
                   completed, calls, lookups, nextId>>

\* _process_bulk_async up to `await asyncio.gather(*tasks)`
AsyncCall ==
    /\ mode = "async"
    /\ main = "init"
    /\ IF max_concurrent < 0
       THEN main' = "raised" /\ UNCHANGED sem_value
       ELSE main' = "gather" /\ sem_value' = max_concurrent
    /\ UNCHANGED <<inputs, self_user_id, pc, waiters, ret, successful, failed,
                   completed, calls, lookups, nextId>>

\* Task i's first step: the tasks gather created run first, in index order.
Start(i) ==
    /\ mode = "async"
    /\ main = "gather"
    /\ pc[i] = "new"
    /\ \A j \in Indices : j < i => pc[j] # "new"
    /\ IF Locked(sem_value, waiters)
       THEN /\ waiters' = Append(waiters, i)
            /\ pc' = [pc EXCEPT ![i] = "waiting"]
            /\ UNCHANGED <<sem_value, ret, completed, calls, lookups>>
       ELSE RunBody(i, sem_value - 1, waiters, pc)
    /\ UNCHANGED <<inputs, self_user_id, main, successful, failed, nextId>>

\* A waiter whose future was set runs on: the rest of Semaphore.acquire()
Resume(i) ==
    /\ mode = "async"
    /\ pc[i] = "granted"
    /\ LET ws == RemoveWaiter(waiters, i)
           s == IF sem_value > 0 THEN WakeUpNext(sem_value, ws, pc)
                ELSE [value |-> sem_value, pc |-> pc]
       IN RunBody(i, s.value, ws, s.pc)
    /\ UNCHANGED <<inputs, self_user_id, main, successful, failed, nextId>>

\* mutant: the identity is resolved outside the try block of create_single
LookupDoneUncaught(i, outcome) ==
    /\ mode = "async"
    /\ pc[i] = "lookup"
    /\ AllStarted
    /\ IF outcome = "ok"
       THEN /\ self_user_id' = ServerUserId
            /\ pc' = [pc EXCEPT ![i] = "post"]
            /\ UNCHANGED <<sem_value, waiters, ret, completed>>
       ELSE /\ TaskExit(i, Uncaught(outcome), "crashed", sem_value, waiters, pc)
            /\ UNCHANGED self_user_id
    /\ UNCHANGED <<inputs, main, successful, failed, calls, lookups, nextId>>

\* GET users/mine of item i's create answers
LookupDone(i, outcome) ==
    /\ mode = "async"
    /\ pc[i] = "lookup"
    /\ AllStarted
    /\ IF outcome = "ok"
       THEN /\ self_user_id' = ServerUserId
            /\ pc' = [pc EXCEPT ![i] = "post"]
            /\ UNCHANGED <<sem_value, waiters, ret, completed>>
       ELSE /\ LET r == Handled(i, outcome, StrOfRemote(outcome))
               IN TaskExit(i, r, ExitState(r), sem_value, waiters, pc)
            /\ UNCHANGED self_user_id
    /\ UNCHANGED <<inputs, main, successful, failed, calls, lookups, nextId>>

\* mutant: a failed create is tried once more
PostDoneRetry(i, outcome) ==
    /\ mode = "async"
    /\ pc[i] = "post"
    /\ AllStarted
    /\ IF outcome = "ok"
       THEN /\ TaskExit(i, CreatedRec(nextId, Item(i), PayloadUserId(Item(i), self_user_id)),
                        "done", sem_value, waiters, pc)
            /\ nextId' = nextId + 1
            /\ UNCHANGED calls
       ELSE IF outcome = "HTTPStatusError" /\ calls[i] = 1
            THEN /\ calls' = [calls EXCEPT ![i] = @ + 1]
                 /\ UNCHANGED <<pc, sem_value, waiters, ret, completed, nextId>>
            ELSE /\ LET r == Handled(i, outcome, StrOfRemote(outcome))
                    IN TaskExit(i, r, ExitState(r), sem_value, waiters, pc)
                 /\ UNCHANGED <<nextId, calls>>
    /\ UNCHANGED <<inputs, self_user_id, main, successful, failed, lookups>>

\* the POST of item i's create answers
PostDone(i, outcome) ==
    /\ mode = "async"
    /\ pc[i] = "post"
    /\ AllStarted
    /\ IF outcome = "ok"
       THEN /\ TaskExit(i, CreatedRec(nextId, Item(i), PayloadUserId(Item(i), self_user_id)),
                        "done", sem_value, waiters, pc)
            /\ nextId' = nextId + 1
       ELSE /\ LET r == Handled(i, outcome, StrOfRemote(outcome))
               IN TaskExit(i, r, ExitState(r), sem_value, waiters, pc)
            /\ UNCHANGED nextId
    /\ UNCHANGED <<inputs, self_user_id, main, successful, failed, calls, lookups>>

\* ------------------------------------------------------- result assembly
\* what gather returns: the tasks' (index, result) tuples in task order
GatherResults == [k \in 1 .. N |-> <<k - 1, ret[k - 1]>>]

\* list.sort(key=lambda x: x[0], reverse=...): a stable sort on the index
KeyBefore(x, y, reverse) == IF reverse THEN x[1] > y[1] ELSE x[1] < y[1]

RECURSIVE InsertByKey(_, _, _)
InsertByKey(sorted, x, reverse) ==
    IF sorted = <<>> THEN <<x>>
    ELSE IF KeyBefore(x, Head(sorted), reverse) THEN <<x>> \o sorted
         ELSE <<Head(sorted)>> \o InsertByKey(Tail(sorted), x, reverse)

RECURSIVE SortWith(_, _)
SortWith(s, reverse) ==
    IF s = <<>> THEN <<>>
    ELSE InsertByKey(SortWith(SubSeq(s, 1, Len(s) - 1), reverse), s[Len(s)], reverse)

\* mutant: results_list.sort(key=lambda x: x[0], reverse=True)
SortByIndexReversed(results_list) == SortWith(results_list, TRUE)

\* results_list.sort(key=lambda x: x[0])
SortByIndex(results_list) == SortWith(results_list, FALSE)

\* mutant: errors are dropped from the result
SelectFailedNone(results_list) == <<>>

\* the loop's `failed.append(result)` branch
SelectFailed(results_list) ==
    LET hits == SelectSeq(results_list, LAMBDA x : IsBulkCreateError(x[2]))
    IN [k \in 1 .. Len(hits) |-> hits[k][2]]

\* mutant: successful.insert(0, result)
SelectSuccessfulPrepend(results_list) ==
    LET hits == SelectSeq(results_list, LAMBDA x : ~IsBulkCreateError(x[2]))
    IN [k \in 1 .. Len(hits) |-> hits[Len(hits) + 1 - k][2]]

\* the loop's `successful.append(result)` branch
SelectSuccessful(results_list) ==
    LET hits == SelectSeq(results_list, LAMBDA x : ~IsBulkCreateError(x[2]))
    IN [k \in 1 .. Len(hits) |-> hits[k][2]]

\* gather has every task's result: sort, partition, return
AsyncReturn ==
    /\ mode = "async"
    /\ main = "gather"
    /\ \A i \in Indices : pc[i] = "done"
    /\ LET results_list == SortByIndex(GatherResults)
       IN /\ successful' = SelectSuccessful(results_list)
          /\ failed' = SelectFailed(results_list)
    /\ main' = "returned"
    /\ UNCHANGED <<inputs, self_user_id, pc, sem_value, waiters, ret, completed,
                   calls, lookups, nextId>>

\* gather propagates the first exception a task raised; the other tasks are
\* not cancelled
AsyncRaise ==
    /\ mode = "async"
    /\ main = "gather"
    /\ \E i \in Indices : pc[i] = "crashed"
    /\ main' = "raised"
    /\ UNCHANGED <<inputs, self_user_id, pc, sem_value, waiters, ret, successful,
                   failed, completed, calls, lookups, nextId>>

\* ---------------------------------------------------- sequential executor
\* the loop's bookkeeping for item i's outcome r
\* mutant: the sequential loop puts each error at the front of failed
SyncOutcomePrepend(i, r) ==
    /\ ret' = [ret EXCEPT ![i] = r]
    /\ pc' = [pc EXCEPT ![i] = ExitState(r)]
    /\ completed' = Append(completed, i)
    /\ IF r.cls = "raised"
       THEN main' = "raised" /\ UNCHANGED <<successful, failed>>
       ELSE /\ UNCHANGED main
            /\ IF IsBulkCreateError(r)
               THEN failed' = <<r>> \o failed /\ UNCHANGED successful
               ELSE successful' = Append(successful, r) /\ UNCHANGED failed

SyncOutcome(i, r) ==
    /\ ret' = [ret EXCEPT ![i] = r]
    /\ pc' = [pc EXCEPT ![i] = ExitState(r)]
    /\ completed' = Append(completed, i)
    /\ IF r.cls = "raised"
       THEN main' = "raised" /\ UNCHANGED <<successful, failed>>
       ELSE /\ UNCHANGED main
            /\ IF IsBulkCreateError(r)
               THEN failed' = Append(failed, r) /\ UNCHANGED successful
               ELSE successful' = Append(successful, r) /\ UNCHANGED failed

SyncCall ==
    /\ mode = "sync"
    /\ main = "init"
    /\ main' = "loop"
    /\ UNCHANGED <<inputs, self_user_id, pc, sem_value, waiters, ret, successful,
                   failed, completed, calls, lookups, nextId>>

\* mutant: the items are handed to workers, none waits for the one before
SyncTurnAny(i) == TRUE

\* `for index, item_data in enumerate(items)`: item i's turn comes when the
\* loop body of every earlier item has run to its end
SyncTurn(i) == \A j \in Indices : j < i => pc[j] = "done"

\* the loop body for item i up to its first request
SyncItem(i) ==
    /\ mode = "sync"
    /\ main = "loop"
    /\ pc[i] = "new"
    /\ SyncTurn(i)
    /\ LET e == ValidateBulkItem(Item(i), required_fields)
           ke == CreateFuncKeyError(Item(i), required_fields)
       IN IF e # NoException
          THEN /\ SyncOutcome(i, Handled(i, "ValueError", e))
               /\ UNCHANGED <<calls, lookups>>
          ELSE /\ calls' = [calls EXCEPT ![i] = @ + 1]
               /\ IF ke # NoException
                  THEN /\ SyncOutcome(i, Handled(i, "KeyError", ke))
                       /\ UNCHANGED lookups
                  ELSE /\ IF NeedsLookup(Item(i), self_user_id)
                          THEN /\ pc' = [pc EXCEPT ![i] = "lookup"]
                               /\ lookups' = lookups + 1
                          ELSE /\ pc' = [pc EXCEPT ![i] = "post"]
                               /\ UNCHANGED lookups
                       /\ UNCHANGED <<main, ret, successful, failed, completed>>
    /\ UNCHANGED <<inputs, self_user_id, sem_value, waiters, nextId>>

\* the user_id property's GET users/mine answers
SyncLookupDone(i, outcome) ==
    /\ mode = "sync"
    /\ main = "loop"
    /\ pc[i] = "lookup"
    /\ IF outcome = "ok"
       THEN /\ self_user_id' = ServerUserId
            /\ pc' = [pc EXCEPT ![i] = "post"]
            /\ UNCHANGED <<main, ret, successful, failed, completed>>
       ELSE /\ SyncOutcome(i, Handled(i, outcome, StrOfRemote(outcome)))
            /\ UNCHANGED self_user_id
    /\ UNCHANGED <<inputs, sem_value, waiters, calls, lookups, nextId>>

\* the POST of create answers
SyncPostDone(i, outcome) ==
    /\ mode = "sync"
    /\ main = "loop"
    /\ pc[i] = "post"
    /\ IF outcome = "ok"
       THEN /\ SyncOutcome(i, CreatedRec(nextId, Item(i),
                                         PayloadUserId(Item(i), self_user_id)))
            /\ nextId' = nextId + 1
       ELSE /\ SyncOutcome(i, Handled(i, outcome, StrOfRemote(outcome)))
            /\ UNCHANGED nextId
    /\ UNCHANGED <<inputs, self_user_id, sem_value, waiters, calls, lookups>>

SyncReturn ==
    /\ mode = "sync"
    /\ main = "loop"
    /\ \A i \in Indices : pc[i] = "done"
    /\ main' = "returned"
    /\ UNCHANGED <<inputs, self_user_id, pc, sem_value, waiters, ret, successful,
                   failed, completed, calls, lookups, nextId>>

\* --------------------------------------------------- the validator alone
InitValidate ==
    /\ mode = "validate"
    /\ items \in {<<d>> : d \in ValidatorItems}
    /\ required_fields \in ValidatorFieldLists
    /\ max_concurrent = 1
    /\ self_user_id = None
    /\ InitCommon

\* one call _validate_bulk_item(items[0], required_fields): it returns, or
\* raises ValueError(msg)
ValidateCall ==
    /\ mode = "validate"
    /\ main = "init"
    /\ LET e == ValidateBulkItem(Item(0), required_fields)
       IN IF e = NoException
          THEN main' = "returned" /\ UNCHANGED ret
          ELSE /\ main' = "raised"
               /\ ret' = [ret EXCEPT ![0] = [cls |-> "ValueError", msg |-> e]]
    /\ UNCHANGED <<inputs, self_user_id, pc, sem_value, waiters, successful,
                   failed, completed, calls, lookups, nextId>>

NextValidate == ValidateCall

SpecValidate == InitValidate /\ [][NextValidate]_vars

\* ------------------------------------------------------------ specification
\* ---------------------------------------------------------------------------
\* The identity of one adapter, used on its own: callers of get_user_id, of
\* the user_id property and of its setter share one adapter.  items holds one
\* record per caller; the callers of an async adapter are tasks of one event
\* loop, those of a sync adapter follow each other in program order.

MaxCallers == 3

AssignedUserId == "int:5"

OpGetUserId == [op |-> "get_user_id"]
OpUserId == [op |-> "user_id"]
OpSetUserId == [op |-> "set", value |-> AssignedUserId]
OpSyncUserId == [op |-> "sync_user_id"]

AsyncIdentityOps == {OpGetUserId, OpUserId, OpSetUserId}
SyncIdentityOps == {OpSyncUserId}

IdentityMode == mode \in {"identity_async", "identity_sync"}

\* __init__ leaves _user_id = None
InitIdentity ==
    /\ mode \in {"identity_async", "identity_sync"}
    /\ items \in (SeqsUpTo(IF mode = "identity_async" THEN AsyncIdentityOps
                                                      ELSE SyncIdentityOps,
                           MaxCallers) \ {<<>>})
    /\ required_fields = <<>>
    /\ max_concurrent = 1
    /\ self_user_id = None
    /\ InitCommon

Returned(v, fetched) == [cls |-> "returned", value |-> v, fetched |-> fetched]

IdFinish(i, r) ==
    /\ pc' = [pc EXCEPT ![i] = "done"]
    /\ ret' = [ret EXCEPT ![i] = r]
    /\ completed' = Append(completed, i)

\* mutant: every call resolves again
NeedsResolveAlways(uid) == TRUE

\* `if self._user_id is None`
NeedsResolve(uid) == uid = None

\* mutant: a failed resolution caches a placeholder
StoreLookupCachesFailure(outcome, uid) ==
    IF outcome = "ok" THEN ServerUserId ELSE Zero

\* `self._user_id = await self._get_default_user_id()`: the assignment runs
\* only when the awaited lookup returned
StoreLookup(outcome, uid) == IF outcome = "ok" THEN ServerUserId ELSE uid

\* get_user_id up to its await: it returns the cached value, or issues
\* GET users/mine and suspends
IdGetStart(i) ==
    /\ mode = "identity_async"
    /\ Item(i).op = "get_user_id"
    /\ pc[i] = "new"
    /\ IF NeedsResolve(self_user_id)
       THEN /\ lookups' = lookups + 1
            /\ pc' = [pc EXCEPT ![i] = "lookup"]
            /\ UNCHANGED <<ret, completed>>
       ELSE /\ IdFinish(i, Returned(self_user_id, FALSE))
            /\ UNCHANGED lookups
    /\ UNCHANGED <<inputs, self_user_id, main, sem_value, waiters, successful,
                   failed, calls, nextId>>

\* the lookup of caller i answers: the result is stored and returned, or
\* raise_for_status raises through get_user_id
IdGetDone(i, outcome) ==
    /\ mode = "identity_async"
    /\ pc[i] = "lookup"
    /\ self_user_id' = StoreLookup(outcome, self_user_id)
    /\ IF outcome = "ok"
       THEN IdFinish(i, Returned(self_user_id', TRUE))
       ELSE IdFinish(i, Uncaught(outcome))
    /\ UNCHANGED <<inputs, main, sem_value, waiters, successful, failed, calls,
                   lookups, nextId>>

\* `ops.user_id = value`
IdSet(i) ==
    /\ mode = "identity_async"
    /\ Item(i).op = "set"
    /\ pc[i] = "new"
    /\ self_user_id' = Item(i).value
    /\ IdFinish(i, [cls |-> "assigned"])
    /\ UNCHANGED <<inputs, main, sem_value, waiters, successful, failed, calls,
                   lookups, nextId>>

\* mutant: the async property resolves lazily, as the sync one does
IdReadLazy(i) ==
    /\ mode = "identity_async"
    /\ Item(i).op = "user_id"
    /\ pc[i] = "new"
    /\ IF self_user_id = None
       THEN /\ lookups' = lookups + 1
            /\ self_user_id' = ServerUserId
            /\ IdFinish(i, Returned(ServerUserId, TRUE))
       ELSE /\ IdFinish(i, Returned(self_user_id, FALSE))
            /\ UNCHANGED <<lookups, self_user_id>>
    /\ UNCHANGED <<inputs, main, sem_value, waiters, successful, failed, calls,
                   nextId>>

\* the user_id property of the async adapter: no request, RuntimeError while
\* the identity is unset
IdRead(i) ==
    /\ mode = "identity_async"
    /\ Item(i).op = "user_id"
    /\ pc[i] = "new"
    /\ IF self_user_id = None
       THEN IdFinish(i, Uncaught("RuntimeError"))
       ELSE IdFinish(i, Returned(self_user_id, FALSE))
    /\ UNCHANGED <<inputs, self_user_id, main, sem_value, waiters, successful,
                   failed, calls, lookups, nextId>>

\* the user_id property of the sync adapter: a blocking lookup on the first
\* access, the cached value afterwards
IdSyncAccess(i, outcome) ==
    /\ mode = "identity_sync"
    /\ Item(i).op = "sync_user_id"
    /\ pc[i] = "new"
    /\ SyncTurn(i)
    /\ IF NeedsResolve(self_user_id)
       THEN /\ lookups' = lookups + 1
            /\ self_user_id' = StoreLookup(outcome, self_user_id)
            /\ IF outcome = "ok"
               THEN IdFinish(i, Returned(self_user_id', TRUE))
               ELSE IdFinish(i, Uncaught(outcome))
       ELSE /\ outcome = "ok"
            /\ IdFinish(i, Returned(self_user_id, FALSE))
            /\ UNCHANGED <<lookups, self_user_id>>
    /\ UNCHANGED <<inputs, main, sem_value, waiters, successful, failed, calls,
                   nextId>>

NextIdentity ==
    \/ \E i \in Indices : IdGetStart(i)
    \/ \E i \in Indices, o \in LookupOutcomes : IdGetDone(i, o)
    \/ \E i \in Indices : IdSet(i)
    \/ \E i \in Indices : IdRead(i)
    \/ \E i \in Indices, o \in LookupOutcomes : IdSyncAccess(i, o)

SpecIdentity == InitIdentity /\ [][NextIdentity]_vars

\* ---------------------------------------------------------------------------
\* list(user_id, meeting_id) of the issue, headline and scorecard adapters.
\* items holds the one call's arguments; calls[0] counts its HTTP requests
\* other than the identity lookup.

ListAdapters ==
    {"issues", "async_issues", "headlines", "async_headlines", "async_scorecard"}

ListIds == {None, Zero, "int:1", "int:7"}

\* Python truthiness of an optional int
Truthy(v) == v \notin {None, Zero}

\* the guard of list(): if user_id and meeting_id
BothGiven(user_id, meeting_id) == Truthy(user_id) /\ Truthy(meeting_id)

\* the ValueError's message; the issue and scorecard adapters quote the two
\* names with back quotes, written as apostrophes here
ListBothMessage(adapter) ==
    IF adapter \in {"headlines", "async_headlines"}
    THEN "Please provide either user_id or meeting_id, not both."
    ELSE "Please provide either 'user_id' or 'meeting_id', not both."

InitList ==
    /\ mode = "list"
    /\ items \in {<<[adapter |-> a, user_id |-> u, meeting_id |-> m]>> :
                     a \in ListAdapters, u \in ListIds, m \in ListIds}
    /\ required_fields = <<>>
    /\ max_concurrent = 1
    /\ self_user_id \in {None, AssignedUserId}
    /\ InitCommon

ListRaise(cls, msg) ==
    /\ main' = "raised"
    /\ pc' = [pc EXCEPT ![0] = "done"]
    /\ ret' = [ret EXCEPT ![0] = [cls |-> cls, msg |-> msg]]

\* list() up to its first request
ListCall ==
    /\ mode = "list"
    /\ main = "init"
    /\ pc[0] = "new"
    /\ LET a == Item(0) IN
       IF BothGiven(a.user_id, a.meeting_id)
       THEN /\ ListRaise("ValueError", ListBothMessage(a.adapter))
            /\ UNCHANGED <<calls, lookups>>
       ELSE /\ UNCHANGED <<main, ret>>
            /\ IF ~Truthy(a.meeting_id) /\ a.user_id = None /\ self_user_id = None
               THEN /\ lookups' = lookups + 1
                    /\ pc' = [pc EXCEPT ![0] = "lookup"]
                    /\ UNCHANGED calls
               ELSE /\ calls' = [calls EXCEPT ![0] = @ + 1]
                    /\ pc' = [pc EXCEPT ![0] = "get"]
                    /\ UNCHANGED lookups
    /\ UNCHANGED <<inputs, self_user_id, sem_value, waiters, successful, failed,
                   completed, nextId>>

\* the identity lookup of list() answers; on success the list request follows
ListLookupDone(outcome) ==
    /\ mode = "list"
    /\ pc[0] = "lookup"
    /\ self_user_id' = StoreLookup(outcome, self_user_id)
    /\ IF outcome = "ok"
       THEN /\ calls' = [calls EXCEPT ![0] = @ + 1]
            /\ pc' = [pc EXCEPT ![0] = "get"]
            /\ UNCHANGED <<main, ret>>
       ELSE /\ ListRaise(outcome, StrOfRemote(outcome))
            /\ UNCHANGED calls
    /\ UNCHANGED <<inputs, sem_value, waiters, successful, failed, completed,
                   lookups, nextId>>

\* the list request answers: raise_for_status, then the transformed list
ListGetDone(outcome) ==
    /\ mode = "list"
    /\ pc[0] = "get"
    /\ IF outcome = "ok"
       THEN /\ main' = "returned"
            /\ pc' = [pc EXCEPT ![0] = "done"]
            /\ ret' = [ret EXCEPT ![0] =
                         [cls |-> "list",
                          of |-> IF Truthy(Item(0).meeting_id) THEN "meeting"
                                 ELSE "user",
                          id |-> IF Truthy(Item(0).meeting_id)
                                 THEN Item(0).meeting_id
                                 ELSE PayloadUserId(Item(0), self_user_id)]]
       ELSE ListRaise(outcome, StrOfRemote(outcome))
    /\ UNCHANGED <<inputs, self_user_id, sem_value, waiters, successful, failed,
                   completed, calls, lookups, nextId>>

NextList ==
    \/ ListCall
    \/ \E o \in LookupOutcomes : ListLookupDone(o)
    \/ \E o \in LookupOutcomes : ListGetDone(o)

SpecList == InitList /\ [][NextList]_vars

Next ==
    \/ AsyncCall
    \/ \E i \in Indices : Start(i)
    \/ \E i \in Indices : Resume(i)
    \/ \E i \in Indices, o \in LookupOutcomes : LookupDone(i, o)
    \/ \E i \in Indices, o \in PostOutcomes : PostDone(i, o)
    \/ AsyncReturn
    \/ AsyncRaise
    \/ SyncCall
    \/ \E i \in Indices : SyncItem(i)
    \/ \E i \in Indices, o \in LookupOutcomes : SyncLookupDone(i, o)
    \/ \E i \in Indices, o \in SyncPostOutcomes : SyncPostDone(i, o)
    \/ SyncReturn

Spec == Init /\ [][Next]_vars

\* The concurrent executor on a fresh adapter, under an event loop that runs
\* every ready task and requests that are all answered in the end: some
\* enabled step is always taken.
InitLive ==
    /\ mode = "async"
    /\ items \in SeqsUpTo(ItemPool, MaxItems)
    /\ required_fields = GoalRequired
    /\ max_concurrent \in (-1) .. MaxConcurrent
    /\ self_user_id = None
    /\ InitCommon

NextLive ==
    \/ AsyncCall
    \/ \E i \in Indices : Start(i)
    \/ \E i \in Indices : Resume(i)
    \/ \E i \in Indices, o \in LookupOutcomes : LookupDone(i, o)
    \/ \E i \in Indices, o \in PostOutcomes : PostDone(i, o)
    \/ AsyncReturn
    \/ AsyncRaise

SpecLive == InitLive /\ [][NextLive]_vars /\ WF_vars(NextLive)

\* ================================================================ properties
\* An item misses a required field: the key is absent or maps to None.
Missing(item_data, f) == f \notin DOMAIN item_data \/ item_data[f] = None
MissingIdx(item_data, fields) ==
    {k \in 1 .. Len(fields) : Missing(item_data, fields[k])}
SomeMissing(i) == MissingIdx(Item(i), required_fields) # {}
Executing == mode \in {"sync", "async"}
Before(a, b) ==
    \E x, y \in 1 .. Len(completed) : x < y /\ completed[x] = a /\ completed[y] = b
FailedAt(i) == {k \in 1 .. Len(failed) : failed[k].index = i}
SuccessfulOf(i) == {k \in 1 .. Len(successful) : successful[k] = ret[i]}

\* C1 (completeness): whenever either executor has returned its result,
\* len(successful) + len(failed) equals the number of input items.
C1_Completeness ==
    (Executing /\ main = "returned") => Len(successful) + Len(failed) = N

\* a concurrent batch of three or more items returned with a success, a
\* validation failure and a create_one error
C1_Witness ==
    /\ mode = "async" /\ main = "returned" /\ N >= 3
    /\ Len(successful) >= 1
    /\ \E k \in 1 .. Len(failed) : failed[k].error = "Server error"
    /\ \E k \in 1 .. Len(failed) : failed[k].error = "title is required"

\* C2 (index coverage): in the result of either executor every index i is
\* accounted for exactly once: one BulkCreateError with index i (the one made
\* for item i) and no entry of successful for i, or one entry of successful
\* that is the value create_one returned for i and no error with index i; and
\* no error carries an index outside 0..n-1.
C2_IndexCoverage ==
    (Executing /\ main = "returned") =>
        /\ \A k \in 1 .. Len(failed) : failed[k].index \in Indices
        /\ \A i \in Indices :
            \/ /\ IsBulkCreateError(ret[i])
               /\ Cardinality(FailedAt(i)) = 1
               /\ \A k \in FailedAt(i) : failed[k] = ret[i]
               /\ SuccessfulOf(i) = {}
            \/ /\ ret[i].cls = "Created"
               /\ Cardinality(SuccessfulOf(i)) = 1
               /\ FailedAt(i) = {}

\* the sequential batch of the partial-failure test: three items, the middle
\* one failed
C2_Witness ==
    /\ mode = "sync" /\ main = "returned" /\ N = 3
    /\ Len(failed) = 1 /\ failed[1].index = 1
    /\ successful = <<ret[0], ret[2]>>

\* C3 (ordering by index): in the concurrent executor's result failed is
\* strictly ascending by index, and successful lists the created values in
\* ascending order of the index of the item each was created for.
C3_OrderedByIndex ==
    (mode = "async" /\ main = "returned") =>
        /\ \A k, l \in 1 .. Len(failed) : k < l => failed[k].index < failed[l].index
        /\ \A k \in 1 .. Len(successful) : \E i \in Indices : ret[i] = successful[k]
        /\ \A k, l \in 1 .. Len(successful) : k < l =>
              \A i, j \in Indices :
                  (ret[i] = successful[k] /\ ret[j] = successful[l]) => i < j

\* item 2 settled before item 0, and the result still lists 0 before 2
C3_Witness ==
    /\ mode = "async" /\ main = "returned" /\ N = 3
    /\ Before(2, 0)
    /\ successful = <<ret[0], ret[2]>>

\* What the batch must return, as a function of the items, the required
\* fields and each item's outcome of create_one alone.
RECURSIVE RefSuccessful(_)
RefSuccessful(n) ==
    IF n = 0 THEN <<>>
    ELSE IF ret[n - 1].cls = "Created"
         THEN Append(RefSuccessful(n - 1), ret[n - 1])
         ELSE RefSuccessful(n - 1)

RefError(i) ==
    LET m == MissingIdx(Item(i), required_fields)
        first == CHOOSE k \in m : \A l \in m : k <= l
    IN [cls |-> "BulkCreateError", index |-> i, input_data |-> Item(i),
        error |-> IF m # {} THEN required_fields[first] \o " is required"
                  ELSE ret[i].error]

RECURSIVE RefFailed(_)
RefFailed(n) ==
    IF n = 0 THEN <<>>
    ELSE IF ret[n - 1].cls = "Created"
         THEN RefFailed(n - 1)
         ELSE Append(RefFailed(n - 1), RefError(n - 1))

\* C4 (order determinism): the sequences the concurrent executor returns are
\* determined by the items, the required fields and the per-item outcome of
\* create_one; the completion order and max_concurrent play no part, so two
\* runs that agree on those return identical sequences.
C4_Deterministic ==
    (mode = "async" /\ main = "returned") =>
        /\ successful = RefSuccessful(N)
        /\ failed = RefFailed(N)

\* a run that completed in the order 1, 2, 0: the server created item 1's
\* object first, and the result lists item 0's first
C4_Witness ==
    /\ mode = "async" /\ main = "returned"
    /\ completed = <<1, 2, 0>>
    /\ Len(successful) >= 2
    /\ successful[1].id > successful[2].id

InFlight == {i \in Indices : pc[i] \in {"lookup", "post"}}

\* C5 (concurrency bound): in every state of a concurrent batch with
\* max_concurrent = k >= 1, at most k items are inside create_one.
C5_ConcurrencyBound ==
    (mode = "async" /\ max_concurrent >= 1) => Cardinality(InFlight) <= max_concurrent

\* the limit is reached while another item waits for a permit
C5_Witness ==
    /\ mode = "async" /\ max_concurrent = 2
    /\ Cardinality(InFlight) = 2
    /\ \E i \in Indices : pc[i] = "waiting"

\* an item's create_one raised an error the executor recorded
CreateOneFailed(i) == IsBulkCreateError(ret[i]) /\ ~SomeMissing(i)

\* the waiter the next release hands its permit to: the first in FIFO order
\* that is still waiting
NextInLine(j) ==
    /\ pc[j] = "waiting"
    /\ \E x \in 1 .. Len(waiters) :
        /\ waiters[x] = j
        /\ \A y \in 1 .. (x - 1) : pc[waiters[y]] # "waiting"

C6_Reported ==
    (mode = "async" /\ main = "returned") =>
        \A i, j \in Indices :
            (i # j /\ CreateOneFailed(i) /\ ~SomeMissing(j)) =>
                /\ calls[j] = 1
                /\ ret[j].cls = "Created" => \E k \in 1 .. Len(successful) : successful[k] = ret[j]
                /\ IsBulkCreateError(ret[j]) =>
                      /\ \E k \in 1 .. Len(failed) : failed[k] = ret[j]
                      /\ ret[j].index = j /\ ret[j].input_data = Item(j)

C6_Step ==
    mode = "async" =>
        \A i \in Indices :
            (pc[i] \in {"lookup", "post"} /\ pc'[i] = "done") =>
                /\ main' = main
                /\ \A j \in Indices \ {i} :
                    /\ ret'[j] = ret[j]
                    /\ calls'[j] = calls[j]
                    /\ pc'[j] = IF NextInLine(j) THEN "granted" ELSE pc[j]

\* C6 (isolation): in the concurrent executor the step in which item i's
\* create_one settles, with an error as with a value, leaves the caller
\* waiting and every other item as it was, except that the first waiter gets
\* the permit; and in the returned result every other valid item had its
\* create_one invoked and its own value or error (index, input_data) reported.
C6_Isolation == [](C6_Reported) /\ [][C6_Step]_vars

\* with one permit, item i failed in create_one first and a later item, which
\* had to wait for i's permit, was still created
C6_Witness ==
    /\ mode = "async" /\ main = "returned" /\ max_concurrent = 1
    /\ \E i, j \in Indices :
        /\ Before(i, j)
        /\ ret[i].cls = "BulkCreateError" /\ ret[i].error = "Server error"
        /\ ret[j].cls = "Created"

PreCallError == mode = "async" /\ max_concurrent < 0

\* C7 as claimed: whatever an item's validation or create_one raises, the
\* batch call does not raise.
C7_NeverRaises == (Executing /\ main = "raised") => PreCallError

\* C7 (amended): every error derived from Exception that an item's validation
\* or create_one raises is converted into that item's BulkCreateError; the
\* batch call raises because of an item only when its create_one raised an
\* exception that is not derived from Exception.
C7_ExceptionsConverted ==
    Executing =>
        /\ \A i \in Indices :
              ret[i].cls = "raised" => ret[i].exc \in BaseOnlyClasses
        /\ (main = "raised" /\ ~PreCallError) =>
              \E i \in Indices : ret[i].cls = "raised"
        /\ \A i \in Indices :
              (pc[i] = "done" /\ ret[i].cls # "Created") =>
                  /\ IsBulkCreateError(ret[i])
                  /\ ret[i].index = i

\* a batch returned although one item failed validation and the create_one
\* of another raised an HTTP error
C7_Witness ==
    /\ Executing /\ main = "returned"
    /\ \E i, j \in Indices :
        /\ SomeMissing(i) /\ IsBulkCreateError(ret[i])
        /\ ~SomeMissing(j) /\ IsBulkCreateError(ret[j])
        /\ ret[j].error = "Server error"

\* C8 (validation short-circuit): in both executors create_one is never
\* invoked for an item that misses a required field; once processed the item
\* is an error with its own index, the returned result has exactly one failed
\* entry for it, and the valid items of the batch are still invoked.
C8_ShortCircuit ==
    Executing =>
        \A i \in Indices :
            SomeMissing(i) =>
                /\ calls[i] = 0
                /\ pc[i] \notin {"lookup", "post", "crashed"}
                /\ pc[i] = "done" => (IsBulkCreateError(ret[i]) /\ ret[i].index = i)
                /\ main = "returned" =>
                      /\ Cardinality(FailedAt(i)) = 1
                      /\ \A j \in Indices : ~SomeMissing(j) => calls[j] = 1

\* a sequential batch returned: item 0 missed a field and was never passed to
\* create_one, item 1 after it was
C8_Witness ==
    /\ mode = "sync" /\ main = "returned" /\ N >= 2
    /\ SomeMissing(0) /\ calls[0] = 0 /\ failed[1].index = 0
    /\ calls[1] = 1

\* C9 (validator): _validate_bulk_item raises exactly when some required
\* field is absent or None, its message names the first such field in
\* required_fields order, and it returns when none is missing (an empty
\* string or a zero is a value).
C9_Validator ==
    (mode = "validate" /\ main # "init") =>
        LET m == MissingIdx(Item(0), required_fields)
        IN /\ main = "raised" <=> m # {}
           /\ main = "returned" <=> m = {}
           /\ main = "raised" =>
                 \E k \in m :
                     /\ \A l \in m : k <= l
                     /\ ret[0].msg = required_fields[k] \o " is required"

\* both fields are missing and the first in the list's order is named
C9_Witness ==
    /\ mode = "validate" /\ main = "raised"
    /\ required_fields = IssueRequired
    /\ Item(0) = [title |-> None]
    /\ ret[0].msg = "meeting_id is required"

\* C10 (empty batch): on an empty list neither executor issues an identity
\* lookup or raises, and what it returns is successful = [] and failed = []
\* (a negative max_concurrent, which create_many([]) does not pass, aside).
C10_EmptyBatch ==
    (Executing /\ N = 0 /\ ~PreCallError) =>
        /\ lookups = 0
        /\ main # "raised"
        /\ successful = <<>> /\ failed = <<>>
        /\ nextId = 1

\* the concurrent executor returned from an empty batch with the identity
\* still unset
C10_Witness ==
    /\ mode = "async" /\ N = 0 /\ main = "returned"
    /\ self_user_id = None /\ lookups = 0

\* a step of the sequential executor that starts item j: its validation, its
\* create_one or one of its remote requests
SyncStarts(j) ==
    \/ pc[j] = "new" /\ pc'[j] # "new"
    \/ pc[j] = "lookup" /\ pc'[j] = "post"

C11_Step ==
    mode = "sync" =>
        \A j \in Indices :
            SyncStarts(j) =>
                /\ \A i \in Indices : i < j =>
                      /\ pc[i] = "done"
                      /\ ret[i].cls \in {"Created", "BulkCreateError"}
                      /\ Cardinality(FailedAt(i)) + Cardinality(SuccessfulOf(i)) = 1
                /\ \A l \in Indices : l > j => pc[l] = "new" /\ calls[l] = 0

\* C11 (strictly sequential): in the sequential executor every step that
\* starts item j (validation, create_one, a remote request) is taken when
\* every earlier item's outcome is already in successful or failed and no
\* later item has been started: item i's requests all precede item i+1's.
C11_Sequential == [][C11_Step]_vars

\* item 1's POST is in flight after item 0, which made its own request, was
\* recorded
C11_Witness ==
    /\ mode = "sync" /\ N >= 2
    /\ pc[0] = "done" /\ calls[0] = 1 /\ Len(successful) + Len(failed) = 1
    /\ pc[1] = "post"

C12_Counts ==
    Executing =>
        \A i \in Indices :
            /\ calls[i] <= 1
            /\ (pc[i] \in {"lookup", "post", "crashed"} \/ ret[i].cls = "Created")
                  => calls[i] = 1
            /\ main = "returned" =>
                  /\ calls[i] = (IF SomeMissing(i) THEN 0 ELSE 1)
                  /\ Cardinality(FailedAt(i)) + Cardinality(SuccessfulOf(i)) = 1

C12_Step ==
    Executing =>
        \A i \in Indices :
            /\ calls'[i] >= calls[i]
            /\ pc[i] \in {"done", "crashed"} =>
                  (calls'[i] = calls[i] /\ pc'[i] = pc[i] /\ ret'[i] = ret[i])

\* C12 (one attempt per item): in both executors create_one is invoked once
\* for each item that passes validation, never again once the item has
\* settled (no retry), and every index, equal items included, has its own
\* entry in the returned result.
C12_OneAttempt == [](C12_Counts) /\ [][C12_Step]_vars

\* two equal items at indices 0 and 1: one was created, the other failed,
\* each after its own single invocation
C12_Witness ==
    /\ mode = "async" /\ main = "returned" /\ N >= 2
    /\ Item(0) = Item(1)
    /\ calls[0] = 1 /\ calls[1] = 1
    /\ ret[0].cls = "BulkCreateError" /\ ret[1].cls = "Created"

NoItemFailed == \A i \in Indices : ret[i].cls \notin {"BulkCreateError", "raised"}

\* C13 (identity resolved at most once per batch): during one concurrent
\* create_many on an adapter whose identity is unset, GET users/mine is issued
\* at most once in total under every interleaving.  Stated for the runs in
\* which no request has failed, so that a second lookup is never the retry
\* that follows a failed one.
C13_SingleLookup == (mode = "async" /\ NoItemFailed) => lookups <= 1

\* ---------------------------------------------------------------------------
\* Identity claims (SpecIdentity)

NoAssignment == \A i \in Indices : Item(i).op # "set"
GetStarts(i) ==
    /\ Item(i).op \in {"get_user_id", "sync_user_id"}
    /\ pc[i] = "new" /\ pc'[i] # "new"
SetStep == \E i \in Indices : Item(i).op = "set" /\ pc[i] = "new" /\ pc'[i] = "done"
ReturnedValues ==
    {ret[i].value : i \in {j \in Indices : ret[j].cls = "returned"}}

C14_Cached ==
    (IdentityMode /\ NoAssignment) =>
        /\ ReturnedValues \subseteq {ServerUserId}
        /\ ReturnedValues # {} => self_user_id = ServerUserId
        /\ self_user_id \in {None, ServerUserId}

C14_Step ==
    (IdentityMode /\ NoAssignment) =>
        /\ \A i \in Indices :
              GetStarts(i) =>
                  lookups' = (IF self_user_id = None THEN lookups + 1 ELSE lookups)
        /\ lookups' \in {lookups, lookups + 1}
        /\ self_user_id # None =>
              (self_user_id' = self_user_id /\ lookups' = lookups)

\* C14 (identity caching): on an adapter whose identity is unset, a
\* get_user_id (async) or user_id access (sync) issues exactly one lookup
\* request and stores its result; once a value is stored, every later call
\* returns that same value and no step issues a lookup request.
C14_IdentityCaching == [](C14_Cached) /\ [][C14_Step]_vars

\* three calls in a row on the sync adapter: the first one fetched, the two
\* later ones returned the cached value, one request in all
C14_Witness ==
    /\ mode = "identity_sync" /\ N = 3
    /\ \A i \in Indices : ret[i].cls = "returned"
    /\ ret[0].fetched /\ ~ret[1].fetched /\ ~ret[2].fetched
    /\ lookups = 1

\* C15 (explicit assignment bypasses resolution): after user_id has been
\* assigned on an adapter whose identity was unset, every get_user_id and
\* user_id read that starts afterwards returns the assigned value.
C15_AssignedValueReturned ==
    mode = "identity_async" =>
        \A a, g \in Indices :
            (/\ Item(a).op = "set"
             /\ Before(a, g)
             /\ ret[g].cls = "returned"
             /\ ~ret[g].fetched)
                => ret[g].value = Item(a).value

FailedLookup(i) == pc[i] = "lookup" /\ ret'[i].cls = "raised"

C16_Unset ==
    IdentityMode =>
        ((\A i \in Indices : ret[i].cls \notin {"returned", "assigned"})
            => self_user_id = None)

C16_Step ==
    IdentityMode =>
        /\ \A i \in Indices :
              FailedLookup(i) =>
                  /\ ret'[i] = Uncaught("HTTPStatusError")
                  /\ self_user_id' = self_user_id
        /\ \A i \in Indices :
              (ret[i].cls = "raised" /\ ret[i].exc = "HTTPStatusError") =>
                  \A j \in Indices :
                      (GetStarts(j) /\ self_user_id = None) => lookups' = lookups + 1
        /\ (mode = "identity_sync" /\ self_user_id = None /\ self_user_id' = None) =>
              \E i \in Indices :
                  pc[i] = "new" /\ ret'[i] = Uncaught("HTTPStatusError")

\* C16 (failed identity resolution leaves the cache unset): when the lookup
\* of a get_user_id (or of the sync user_id access) fails, the error reaches
\* the caller, the failing call leaves the stored identity as it was (None
\* while nothing else stored one), and the next call made while the identity
\* is unset issues a new lookup request.
C16_FailedResolution == [](C16_Unset) /\ [][C16_Step]_vars

\* the first call failed, the identity is still unset and the second call has
\* its own lookup in flight
C16_Witness ==
    /\ mode = "identity_async" /\ N >= 2
    /\ ret[0] = Uncaught("HTTPStatusError")
    /\ self_user_id = None
    /\ pc[1] = "lookup" /\ lookups = 2

\* C17 (identity mutated only by assignment or first resolution): once the
\* identity holds a value, no step other than an explicit assignment changes
\* it, a get_user_id that started its lookup earlier included.
C17_NoLateOverwrite ==
    [][(mode = "identity_async" /\ self_user_id # None /\ ~SetStep)
           => self_user_id' = self_user_id]_vars

\* ---------------------------------------------------------------------------
\* Termination and overlap of the concurrent executor

Settled(i) == pc[i] \in {"done", "crashed"}

\* C18 as written (termination of the concurrent batch): for
\* max_concurrent >= 1 the call cannot stop anywhere but at the return of its
\* result.
C18_ReturnsResult ==
    (mode = "async" /\ max_concurrent >= 1 /\ ~ENABLED NextLive) => main = "returned"

C18_Finished ==
    /\ \A i \in Indices : Settled(i)
    /\ sem_value = max_concurrent
    /\ main \in {"returned", "raised"}
    /\ main = "returned" <=> \A i \in Indices : pc[i] = "done"

\* C18 (termination, amended): for max_concurrent >= 1, when every request is
\* answered, every item settles, every permit is back in the semaphore, and
\* the call returns its result, or raises when a create_one raised an
\* exception that is not an Exception.
C18_Termination ==
    (mode = "async" /\ max_concurrent >= 1) => <>C18_Finished

\* three items went through a single permit, one of them failed, and the call
\* returned with the permit free
C18_Witness ==
    /\ mode = "async" /\ max_concurrent = 1 /\ N = 3
    /\ main = "returned"
    /\ Len(failed) = 1 /\ failed[1].index = 0
    /\ sem_value = 1

\* C19 (the executors agree): for the same items, the same required fields
\* and the same per-item outcome of create_one, the sequential executor and
\* the concurrent one (any max_concurrent >= 1, any interleaving) return the
\* same successful and failed sequences: each returns the sequences that
\* those three alone determine; and either one raises instead of returning
\* only when a create_one raised past its handler.
C19_ExecutorsAgree ==
    (Executing /\ max_concurrent >= 1) =>
        /\ main = "returned" =>
              (successful = RefSuccessful(N) /\ failed = RefFailed(N))
        /\ main = "raised" => \E i \in Indices : pc[i] = "crashed"

\* the sequential executor returned two errors and one success for three
\* items, the outcomes a concurrent run of the same batch can also meet
C19_Witness ==
    /\ mode = "sync" /\ main = "returned" /\ N = 3
    /\ Len(failed) = 2 /\ failed[1].index = 0 /\ failed[2].index = 2
    /\ failed[2].error = "Server error"
    /\ Len(successful) = 1

Holding == {i \in Indices : pc[i] \in {"granted", "lookup", "post"}}

C20_NoIdlePermit ==
    (mode = "async" /\ max_concurrent >= 1 /\ main = "gather") =>
        /\ (\E j \in Indices : pc[j] = "waiting") =>
              (sem_value = 0 /\ Cardinality(Holding) = max_concurrent)
        /\ \A j \in Indices : pc[j] = "granted" => ENABLED Resume(j)

C20_Step ==
    (mode = "async" /\ max_concurrent >= 1) =>
        \A i \in Indices :
            (pc[i] \in {"lookup", "post"} /\ Settled(i)') =>
                \A j \in FirstWaiting(waiters, pc) : pc'[j] = "granted"

\* C20 (work really overlaps up to the limit): with max_concurrent = k, no
\* item waits for a permit while fewer than k hold one, the step in which any
\* one in-flight item settles hands its permit to the first waiting item
\* whatever the state of the other items, and an item that was handed a
\* permit can enter create_one at once.
C20_Overlap == [](C20_NoIdlePermit) /\ [][C20_Step]_vars

\* k = 2: item 2, which had to wait, is inside create_one together with item
\* 0, which is still in flight; only item 1 has settled
C20_Witness ==
    /\ mode = "async" /\ max_concurrent = 2 /\ N = 3
    /\ pc[0] \in {"lookup", "post"}
    /\ pc[1] = "done" /\ calls[1] = 1
    /\ pc[2] \in {"lookup", "post"} /\ calls[2] = 1
    /\ Cardinality(InFlight) = max_concurrent

\* ---------------------------------------------------------------------------
\* Adapters, inputs and pre-call errors

MissingBoth(i) == Missing(Item(i), "title") /\ Missing(Item(i), "meeting_id")

FirstRequiredMessage ==
    IF required_fields = GoalRequired THEN "title is required"
    ELSE "meeting_id is required"

\* C21 (adapter required fields and their order): in both executors an item
\* missing both title and meeting_id is reported with "title is required" by
\* the goal adapter and with "meeting_id is required" by the issue adapter.
C21_RequiredOrder ==
    Executing =>
        \A i \in Indices :
            MissingBoth(i) =>
                /\ IsBulkCreateError(ret[i]) => ret[i].error = FirstRequiredMessage
                /\ main = "returned" =>
                      /\ Cardinality(FailedAt(i)) = 1
                      /\ \A k \in FailedAt(i) : failed[k].error = FirstRequiredMessage

\* the issue adapter returned "meeting_id is required" for an item that lacks
\* both fields
C21_Witness ==
    /\ mode = "async" /\ main = "returned" /\ N >= 1
    /\ required_fields = IssueRequired
    /\ MissingBoth(0)
    /\ Len(failed) >= 1 /\ failed[1].index = 0
    /\ failed[1].error = "meeting_id is required"

C22_InputData ==
    Executing =>
        /\ \A i \in Indices :
              IsBulkCreateError(ret[i]) => ret[i].input_data = Item(ret[i].index)
        /\ \A k \in 1 .. Len(failed) :
              /\ failed[k].index \in Indices
              /\ failed[k].input_data = Item(failed[k].index)

\* C22 (input items are read-only): no step of either executor changes an
\* item, the list or its order, and the input_data of every BulkCreateError
\* equals the original item at that error's index.
C22_ReadOnlyInputs == [](C22_InputData) /\ [][Executing => items' = items]_vars

\* a returned batch whose two errors carry two different items, each the one
\* found at the error's index of the list passed in
C22_Witness ==
    /\ Executing /\ main = "returned" /\ N = 3
    /\ Len(failed) = 2
    /\ failed[1].input_data = ItemNothing /\ items[failed[1].index + 1] = ItemNothing
    /\ failed[2].input_data = ItemValidUser /\ items[failed[2].index + 1] = ItemValidUser

PropertyRead(i) == Item(i).op = "user_id" /\ pc[i] = "new" /\ pc'[i] = "done"

C23_Step ==
    mode = "identity_async" =>
        /\ \A i \in Indices :
              (PropertyRead(i) /\ self_user_id = None) =>
                  /\ ret'[i] = Uncaught("RuntimeError")
                  /\ lookups' = lookups
                  /\ self_user_id' = None
        /\ lookups' # lookups =>
              \E i \in Indices : Item(i).op = "get_user_id" /\ GetStarts(i)

\* C23 (the async user_id property never resolves): on an async adapter whose
\* identity is unset, reading user_id raises RuntimeError, issues no lookup
\* request and leaves the identity unset; a lookup request is issued only by
\* a get_user_id call.
C23_PropertyRaises == [][C23_Step]_vars

\* the property read raised with no request made; the one lookup in flight
\* belongs to a get_user_id call
C23_Witness ==
    /\ mode = "identity_async" /\ N >= 2
    /\ Item(0).op = "user_id" /\ ret[0] = Uncaught("RuntimeError")
    /\ Item(1).op = "get_user_id" /\ pc[1] = "lookup"
    /\ lookups = 1 /\ self_user_id = None

\* C24 (list rejects both filters): issue, headline and scorecard list raise
\* ValueError whenever user_id and meeting_id are both not None, whatever
\* their integer values, and then issue no HTTP request and no identity
\* lookup.
C24_BothRejected ==
    (/\ mode = "list"
     /\ Item(0).user_id # None /\ Item(0).meeting_id # None
     /\ pc[0] # "new")
        => /\ main = "raised"
           /\ ret[0] = [cls |-> "ValueError", msg |-> ListBothMessage(Item(0).adapter)]
           /\ calls[0] = 0
           /\ lookups = 0

\* ---------------------------------------------------------------------------
\* Permits of the concurrent executor

SemaphoreMade == mode = "async" /\ max_concurrent >= 0 /\ main # "init"

\* C25 (permit accounting): once the semaphore exists, permits held plus
\* permits available equal max_concurrent and neither is negative; the
\* holders are exactly the items between their acquire and their settle; when
\* _process_bulk_async returns no item is in flight and every permit is
\* available.
C25_PermitAccounting ==
    SemaphoreMade =>
        /\ sem_value >= 0
        /\ Cardinality(Holding) + sem_value = max_concurrent
        /\ \A i \in Indices : (pc[i] = "new" \/ Settled(i)) => i \notin Holding
        /\ \A i \in Indices : pc[i] = "waiting" => ret[i] = Pending /\ calls[i] = 0
        /\ main = "returned" =>
              (Holding = {} /\ InFlight = {} /\ sem_value = max_concurrent)

\* of two permits one is held by an item in flight and the other came back
\* from an item whose create_one failed
C25_Witness ==
    /\ mode = "async" /\ max_concurrent = 2 /\ main = "gather"
    /\ Cardinality(InFlight) = 1 /\ sem_value = 1
    /\ \E i \in Indices : CreateOneFailed(i) /\ calls[i] = 1

\* C26 as written (a validation failure holds no permit across a suspension):
\* every held permit belongs to an item that passed validation.
C26_HoldersValid ==
    SemaphoreMade => \A i \in Holding : ~SomeMissing(i)

C26_Holders ==
    SemaphoreMade =>
        /\ \A i \in Holding :
              \/ pc[i] = "granted" /\ calls[i] = 0
              \/ pc[i] \in {"lookup", "post"} /\ ~SomeMissing(i) /\ calls[i] = 1
        /\ \A i \in Indices : SomeMissing(i) => pc[i] \notin {"lookup", "post"}

C26_Step ==
    mode = "async" =>
        \A i \in Indices :
            (SomeMissing(i) /\ pc[i] \in {"new", "granted"}
                /\ pc'[i] \notin {pc[i], "waiting"}) =>
                    /\ pc'[i] = "done"
                    /\ IsBulkCreateError(ret'[i])
                    /\ calls'[i] = 0
                    /\ i \notin Holding'
                    /\ \A j \in FirstWaiting(waiters, pc) \ {i} : pc'[j] = "granted"

\* C26 (a validation failure does not block other items, amended): an item
\* that fails validation is never inside create_one and never waits for a
\* request while it holds a permit: from the step in which it runs with its
\* permit it validates, records its error and releases, handing the permit to
\* the first waiting item.  A held permit belongs to an item inside
\* create_one that passed validation, or to an item that a release has just
\* handed the permit to and that has not run yet.
C26_ValidationHoldsNoPermit == [](C26_Holders) /\ [][C26_Step]_vars

\* two permits: the invalid item 1 settled at once and item 2 took the permit
\* it gave back, next to item 0, before any request was answered
C26_Witness ==
    /\ mode = "async" /\ max_concurrent = 2 /\ N = 3
    /\ SomeMissing(1) /\ completed = <<1>>
    /\ pc[0] \in {"lookup", "post"} /\ pc[2] \in {"lookup", "post"}

\* ---------------------------------------------------------------------------
\* Identity inside a batch, and the semaphore's bad limits

LookupFails(i) == pc[i] = "lookup" /\ pc'[i] \notin {"lookup", "post"}

C27_Step ==
    mode = "async" =>
        \A i \in Indices :
            LookupFails(i) =>
                /\ pc'[i] = "done"
                /\ ret'[i] = [cls |-> "BulkCreateError", index |-> i,
                              input_data |-> Item(i), error |-> "Server error"]
                /\ main' = main
                /\ self_user_id' = self_user_id
                /\ \A j \in Indices \ {i} :
                      /\ ret'[j] = ret[j]
                      /\ pc'[j] = pc[j] \/ (pc[j] = "waiting" /\ pc'[j] = "granted")

C27_State ==
    mode = "async" =>
        /\ \A i \in Indices :
              pc[i] = "lookup" => Get(Item(i), "user_id") = None
        /\ main = "raised" =>
              (PreCallError \/ \E i \in Indices : pc[i] = "crashed")
        /\ \A i \in Indices :
              pc[i] = "crashed" => ret[i].exc \in BaseOnlyClasses

\* C27 (an identity-resolution failure inside a batch is reported per item):
\* when the lookup made for an item that omits user_id fails, the failure
\* becomes that item's BulkCreateError, the call does not raise because of
\* it, the stored identity is left as it was (unset), and no other item's
\* outcome is touched; items that carry their own user_id never wait for a
\* lookup.
C27_LookupFailurePerItem == [](C27_State) /\ [][C27_Step]_vars

\* the batch returned: item 0 omitted user_id and its lookup failed, the
\* identity is still unset, and item 1, which carries a user_id, was created
C27_Witness ==
    /\ mode = "async" /\ main = "returned" /\ N = 2
    /\ Item(0) = ItemValidNoUser /\ Item(1) = ItemValidUser
    /\ self_user_id = None /\ lookups = 1
    /\ failed = <<ret[0]>> /\ ret[0].error = "Server error"
    /\ successful = <<ret[1]>>

NothingProcessed ==
    /\ \A i \in Indices : calls[i] = 0 /\ ret[i] = Pending
    /\ lookups = 0
    /\ successful = <<>> /\ failed = <<>> /\ completed = <<>>
    /\ self_user_id \in {None, AssignedUserId}

\* C28 (max_concurrent = 0): with a non-empty item list no item ever acquires
\* a permit: nothing is validated, create_one is never invoked, the call
\* never returns, and once every task waits on the semaphore no step is
\* possible any more.
C28_ZeroNeverReturns ==
    (mode = "async" /\ max_concurrent = 0 /\ N >= 1) =>
        /\ main \in {"init", "gather"}
        /\ \A i \in Indices : pc[i] \in {"new", "waiting"}
        /\ sem_value = 0
        /\ NothingProcessed
        /\ (\A i \in Indices : pc[i] = "waiting") => ~ENABLED Next

\* three tasks queue on the semaphore that has no permit
C28_Witness ==
    /\ mode = "async" /\ max_concurrent = 0 /\ N = 3
    /\ main = "gather"
    /\ waiters = <<0, 1, 2>>
    /\ \A i \in Indices : pc[i] = "waiting"

\* C29 (a negative max_concurrent fails fast): _process_bulk_async raises at
\* the construction of the semaphore, for every item list, the empty one
\* included: no task is started, nothing is validated, no create_one and no
\* identity lookup is issued, and no result is returned.
C29_NegativeFailsFast ==
    (mode = "async" /\ max_concurrent < 0) =>
        /\ main \in {"init", "raised"}
        /\ \A i \in Indices : pc[i] = "new"
        /\ waiters = <<>>
        /\ NothingProcessed
        /\ main = "raised" => ~ENABLED Next

\* the call with an empty list and max_concurrent = -1 has raised
C29_Witness ==
    /\ mode = "async" /\ max_concurrent < 0 /\ N = 0
    /\ main = "raised"

AllSupplyUser == \A i \in Indices : Get(Item(i), "user_id") # None

C30_State == (Executing /\ AllSupplyUser) => lookups = 0

C30_Step ==
    Executing =>
        /\ AllSupplyUser => self_user_id' = self_user_id
        /\ lookups' \in {lookups, lookups + 1}
        /\ lookups' # lookups =>
              /\ self_user_id = None
              /\ \E i \in Indices :
                    /\ pc[i] \in {"new", "granted"} /\ pc'[i] = "lookup"
                    /\ ~SomeMissing(i)
                    /\ Get(Item(i), "user_id") = None

\* C30 (lazy identity use inside a batch): in a goal or issue create_many in
\* which every item supplies a user_id no identity lookup is ever issued and
\* the adapter's cached identity is never changed; a lookup is issued only by
\* the create of a valid item that omits user_id, while the identity is
\* unset.
C30_LazyIdentity == [](C30_State) /\ [][C30_Step]_vars

\* a batch of three items that all name their user returned, with no lookup
\* made and the identity still unset
C30_Witness ==
    /\ Executing /\ main = "returned" /\ N = 3
    /\ AllSupplyUser
    /\ self_user_id = None /\ lookups = 0
    /\ Len(successful) = 3
====
